---- MODULE Spec2Model ----
(***************************************************************************)
(* A model of the voice-copilot session orchestration:                     *)
(*   HotkeyHandler          (voice_transcriber/hotkey_handler.py)          *)
(*   AudioRecorder          (voice_transcriber/audio_recorder.py)          *)
(*   Transcriber            (voice_transcriber/transcriber.py)             *)
(*   TextToSpeech           (voice_transcriber/text_to_speech.py)          *)
(*   VoiceTranscriberService (voice_transcriber/service.py)                *)
(* Time is counted in tenths of a second (0.5 s is 5, 30 s is 300).        *)
(***************************************************************************)
EXTENDS Integers, FiniteSets, Sequences, TLC

\* ---------------------------------------------------------------- bounds
\* worker threads that can be alive at once (processing / API request threads)
NThreads == 2
\* recording threads that can be alive at once
MaxRec == 2
\* frames counted in audio_data
MaxFrames == 2
\* whisper.load_model calls that succeed in one run
MaxLoads == 2
\* _process_tts threads and _speech_worker threads that can be alive at once
MaxTrig == 2
MaxWorkers == 2
\* insert_text calls counted
MaxInserts == 1
\* how far the clock runs in each specification (tenths of a second)
KeysHorizon == 8
DebounceHorizon == 10
TtsHorizon == 6
ServiceHorizon == 12
CaptureHorizon == 602
ModelHorizon == 6600
IdleHorizon == 3600

\* ------------------------------------------------------ program constants
\* config.min_recording_duration = 0.5 s
min_recording_duration == 5
\* config.max_recording_duration = 30.0 s
max_recording_duration == 300
\* HotkeyHandler.tts_debounce_time = 0.5 s
tts_debounce_time == 5
\* recording_thread.join(timeout=1.0)
JoinTimeout == 10
\* time.sleep(30) of the model unloader
SweepInterval == 300
\* 300 s of inactivity
IdleLimit == 3000

\* time.time() at construction: far from the 0 that marks "never"
Epoch == 2 * IdleLimit
\* clock granularity of each specification
KeysStep == (tts_debounce_time + 1) \div 2
DebounceStep == tts_debounce_time
ServiceStep == (min_recording_duration + 1) \div 2
CaptureStep == max_recording_duration + 1
ModelStep == IdleLimit + SweepInterval
IdleStep == SweepInterval \div 2

Threads == 1..NThreads
RecSlots == 1..MaxRec
Trigs == 1..MaxTrig
Workers == 1..MaxWorkers

\* ------------------------------------------------------------- key names
RawKeys == {"ctrl_l", "ctrl_r", "f1", "f2", "a", "unmapped"}
\* the keys a specification's keyboard offers
RecordKeys == {"ctrl_l", "f1"}
SpeakKeys == {"ctrl_l", "f2"}
NoName == "None"

\* a key-name mapping that gives every key a name
GetKeyName_Total(k) == IF k \in {"ctrl_l", "ctrl_r"} THEN "ctrl" ELSE k

\* HotkeyHandler._get_key_name: both control keys are named 'ctrl', a key with
\* neither char nor name has no name
GetKeyName(k) ==
    CASE k \in {"ctrl_l", "ctrl_r"} -> "ctrl"
      [] k = "unmapped" -> NoName
      [] OTHER -> k

\* config.hotkey and config.tts_hotkey
hotkey == {"ctrl", "f1"}
tts_hotkey == {"ctrl", "f2"}
Chord(c) == IF c = "record" THEN hotkey ELSE tts_hotkey
Chords == {"record", "tts"}

VARIABLES
    now,               \* time.time()
    \* keyboard
    down,              \* raw keys physically down
    held,              \* key names down according to the event stream (history)
    act,               \* activations of each chord in its current held period (history)
    redown,            \* a key of the chord went down again after that activation (history)
    called,            \* the counting callbacks the last key event called
    balance,           \* on_press calls less on_release calls counted by those callbacks
    \* HotkeyHandler
    is_listening, callbacks, pressed_keys, hotkey_states, last_tts_trigger,
    \* AudioRecorder
    is_recording, audio_data, start_time, recording_thread, rthread,
    cb,                \* the stream's audio_callback is between its is_recording test and its append
    finalized,         \* stop_recording has concatenated the current frame list (history)
    start_ret,         \* what start_recording returned to a direct caller
    \* VoiceTranscriberService
    is_running, is_processing,
    lpc,               \* where the listener thread is inside a callback
    join_start,        \* when the listener thread began its join
    stop_called,       \* elapsed recording time when stop_recording was called
    last_press,        \* the last _on_hotkey_press came while is_processing (history)
    pc,                \* position of each worker thread
    result,            \* what transcribe returned to the thread
    inserted,          \* TextInserter.insert_text calls (history)
    \* Transcriber
    model, model_lock, last_used, next_sweep, loads, unloads,
    tx_inst,           \* the instance _ensure_model_loaded handed the thread (history)
    tx_fail,           \* why its transcribe call returned None (history)
    tx_absent,         \* the model was absent when its call began (history)
    idle_unloaded,     \* the unloader dropped the model and it was not asked for since (history)
    reply,             \* the last status query's answer (history)
    \* TextToSpeech
    is_speaking, stop_requested, speech_thread, mixer_busy,
    tpc,               \* position of each _process_tts thread
    ttext,             \* what get_selected_text returned to it
    tret,              \* where its stop_speech call returns to
    t_active,          \* workers that had set is_speaking when it was triggered, still on that job (history)
    t_started,         \* it started a _speech_worker (history)
    wpc,               \* position of each _speech_worker thread
    waudio,            \* the worker's temporary audio file exists
    \* VoiceTranscriberService and its SystemTray
    started,           \* what the last VoiceTranscriberService.start returned
    system_tray,       \* self.system_tray is a SystemTray, not None
    tray_running,      \* SystemTray.is_running
    tray_recording,    \* SystemTray.is_recording
    \* notifications and temporary files
    show_notifications,\* config.show_notifications
    sink_ok,           \* the desktop's notification service answers
    notified,          \* the title of the last notification each job asked for
    notify_raised,     \* notification.notify raised during the job
    wav,               \* the temporary WAV file handed to the thread exists
    orphan             \* a temporary WAV file exists that no thread holds

clockVars == <<now>>
keyVars == <<down, held, act, redown, called, balance>>
handlerVars == <<is_listening, callbacks, pressed_keys, hotkey_states, last_tts_trigger>>
recVars == <<is_recording, audio_data, start_time, recording_thread, rthread, cb, finalized, start_ret>>
svcVars == <<is_running, is_processing, lpc, join_start, stop_called, last_press>>
thrVars == <<pc, result, inserted>>
txVars == <<model, model_lock, last_used, next_sweep, loads, unloads, tx_inst, tx_fail, tx_absent, idle_unloaded, reply>>
ttsVars == <<is_speaking, stop_requested, speech_thread, mixer_busy, tpc, ttext, tret, t_active, t_started, wpc, waudio>>
\* what the service's last start() returned, and its SystemTray
trayVars == <<started, system_tray, tray_running, tray_recording>>
\* the notifications and the temporary file of each _process_audio thread
jobVars == <<show_notifications, sink_ok, notified, notify_raised, wav, orphan>>
vars == <<clockVars, keyVars, handlerVars, recVars, svcVars, thrVars, txVars, ttsVars, trayVars, jobVars>>

Min(a, b) == IF a < b THEN a ELSE b

\* ------------------------------------------------------------------ Init
\* the state after VoiceTranscriberService.__init__ (and Transcriber.__init__,
\* which starts the unloader thread in its first sleep)
Init ==
    /\ now = Epoch
    /\ down = {} /\ held = {} /\ act = [c \in Chords |-> 0]
    /\ redown = [c \in Chords |-> FALSE]
    /\ called = {}
    /\ balance = 0
    /\ is_listening = FALSE /\ callbacks = "none" /\ pressed_keys = {}
    /\ hotkey_states = [record |-> FALSE, tts |-> FALSE]
    /\ last_tts_trigger = 0
    /\ is_recording = FALSE /\ audio_data = 0 /\ start_time = 0
    /\ recording_thread = 0 /\ rthread = [s \in RecSlots |-> "free"]
    /\ cb = [s \in RecSlots |-> FALSE] /\ finalized = FALSE /\ start_ret = "none"
    /\ is_running = FALSE /\ is_processing = FALSE
    /\ lpc = "idle" /\ join_start = 0 /\ stop_called = 0
    /\ last_press = "none"
    /\ pc = [t \in Threads |-> "none"]
    /\ result = [t \in Threads |-> "none"]
    /\ inserted = 0
    /\ model = 0 /\ model_lock = 0 /\ last_used = 0
    /\ next_sweep = Epoch + SweepInterval
    /\ loads = 0 /\ unloads = 0
    /\ tx_inst = [t \in Threads |-> 0]
    /\ tx_fail = [t \in Threads |-> "no"]
    /\ tx_absent = [t \in Threads |-> FALSE]
    /\ idle_unloaded = FALSE
    /\ reply = [asked |-> FALSE, loaded |-> FALSE, idle |-> FALSE, swept |-> FALSE]
    /\ is_speaking = FALSE /\ stop_requested = FALSE
    /\ speech_thread = 0 /\ mixer_busy = FALSE
    /\ tpc = [g \in Trigs |-> "none"]
    /\ ttext = [g \in Trigs |-> "none"]
    /\ tret = [g \in Trigs |-> "none"]
    /\ t_active = [g \in Trigs |-> {}]
    /\ t_started = [g \in Trigs |-> FALSE]
    /\ wpc = [w \in Workers |-> "free"]
    /\ waudio = [w \in Workers |-> FALSE]
    /\ started = "none"
    /\ system_tray = TRUE /\ tray_running = FALSE /\ tray_recording = FALSE
    /\ show_notifications = TRUE /\ sink_ok = TRUE
    /\ notified = [t \in Threads |-> "none"]
    /\ notify_raised = [t \in Threads |-> FALSE]
    /\ wav = [t \in Threads |-> FALSE]
    /\ orphan = FALSE

\* time passes; a join outlasts neither its timeout nor the thread it waits
\* for, and the unloader wakes when its sleep ends unless it has to wait for
\* model_lock
Tick(step, horizon) ==
    /\ now + step <= Epoch + horizon
    /\ ~(lpc = "join" /\ now - join_start >= JoinTimeout)
    /\ ~(lpc = "join" /\ rthread[recording_thread] # "running")
    /\ ~(now >= next_sweep /\ model_lock = 0)
    /\ now' = now + step
    /\ UNCHANGED <<keyVars, handlerVars, recVars, svcVars, thrVars, txVars, ttsVars, trayVars, jobVars>>

\* ----------------------------------------------------------- AudioRecorder
FreeRecSlot == CHOOSE s \in RecSlots : rthread[s] = "free" /\ \A r \in RecSlots : rthread[r] = "free" => s <= r

\* a start_recording without its is_recording test
start_recording_Always ==
    /\ \E s \in RecSlots : rthread[s] = "free"
    /\ is_recording' = TRUE
    /\ audio_data' = 0
    /\ start_time' = now
    /\ recording_thread' = FreeRecSlot
    /\ rthread' = [rthread EXCEPT ![FreeRecSlot] = "running"]
    /\ finalized' = FALSE
    /\ UNCHANGED cb

\* AudioRecorder.start_recording: refused while recording, else a new recording
\* thread is started and the frame list emptied
start_recording ==
    IF is_recording
    THEN UNCHANGED <<is_recording, audio_data, start_time, recording_thread, rthread, cb, finalized>>
    ELSE /\ \E s \in RecSlots : rthread[s] = "free"
         /\ is_recording' = TRUE
         /\ audio_data' = 0
         /\ start_time' = now
         /\ recording_thread' = FreeRecSlot
         /\ rthread' = [rthread EXCEPT ![FreeRecSlot] = "running"]
         /\ finalized' = FALSE
         /\ UNCHANGED cb

\* frames appended or about to be
Pending == Cardinality({s \in RecSlots : cb[s]})

\* audio_callback: if self.is_recording
RecCallback(s) ==
    /\ rthread[s] = "running"
    /\ ~cb[s]
    /\ is_recording
    /\ audio_data + Pending < MaxFrames
    /\ cb' = [cb EXCEPT ![s] = TRUE]
    /\ UNCHANGED <<is_recording, audio_data, start_time, start_ret, recording_thread, rthread, finalized>>
    /\ UNCHANGED <<clockVars, trayVars, jobVars, keyVars, handlerVars, svcVars, thrVars, txVars, ttsVars>>

\* audio_callback: self.audio_data.append(indata.copy())
RecAppend(s) ==
    /\ cb[s]
    /\ audio_data' = audio_data + 1
    /\ cb' = [cb EXCEPT ![s] = FALSE]
    /\ UNCHANGED <<is_recording, start_time, start_ret, recording_thread, rthread, finalized>>
    /\ UNCHANGED <<clockVars, trayVars, jobVars, keyVars, handlerVars, svcVars, thrVars, txVars, ttsVars>>

\* _record_audio: the loop ends when is_recording is false or the maximum
\* duration is passed, and the stream is closed once its callback is done
RecExit(s) ==
    /\ rthread[s] = "running"
    /\ ~cb[s]
    /\ (~is_recording \/ now - start_time > max_recording_duration)
    /\ rthread' = [rthread EXCEPT ![s] = "free"]
    /\ UNCHANGED <<is_recording, audio_data, start_time, start_ret, recording_thread, cb, finalized>>
    /\ UNCHANGED <<clockVars, trayVars, jobVars, keyVars, handlerVars, svcVars, thrVars, txVars, ttsVars>>

\* _record_audio: the stream raises, the handler clears is_recording
RecError(s) ==
    /\ rthread[s] = "running"
    /\ ~cb[s]
    /\ is_recording' = FALSE
    /\ rthread' = [rthread EXCEPT ![s] = "free"]
    /\ UNCHANGED <<audio_data, start_time, start_ret, recording_thread, cb, finalized>>
    /\ UNCHANGED <<clockVars, trayVars, jobVars, keyVars, handlerVars, svcVars, thrVars, txVars, ttsVars>>

\* -------------------------------------------- VoiceTranscriberService: keys
\* SystemTray.set_recording, called if self.system_tray: a tray without an
\* icon or not running ignores the call
SetRecording(recording) ==
    IF system_tray /\ tray_running THEN recording ELSE tray_recording

\* _on_hotkey_press without its is_processing test
OnHotkeyPress_NoGate ==
    /\ IF ~is_running
       THEN UNCHANGED recVars
       ELSE start_recording /\ UNCHANGED start_ret
    /\ tray_recording' = IF is_running /\ ~is_recording THEN SetRecording(TRUE) ELSE tray_recording
    /\ last_press' = IF is_running /\ is_processing THEN "while_busy" ELSE "none"
    /\ UNCHANGED <<lpc, join_start, stop_called, ttsVars>>

\* VoiceTranscriberService._on_hotkey_press
OnHotkeyPress ==
    /\ IF ~is_running \/ is_processing
       THEN UNCHANGED recVars
       ELSE start_recording /\ UNCHANGED start_ret
    /\ tray_recording' = IF is_running /\ ~is_processing /\ ~is_recording
                          THEN SetRecording(TRUE) ELSE tray_recording
    /\ last_press' = IF is_running /\ is_processing THEN "while_busy" ELSE "none"
    /\ UNCHANGED <<lpc, join_start, stop_called, ttsVars>>

\* a stop_recording that leaves is_recording set while it joins
OnHotkeyRelease_KeepFlag ==
    /\ IF ~is_running \/ ~is_recording
       THEN UNCHANGED <<lpc, join_start, stop_called>>
       ELSE /\ stop_called' = now - start_time
            /\ lpc' = "join"
            /\ join_start' = now
    /\ last_press' = "none"
    /\ tray_recording' = IF is_running /\ is_recording THEN SetRecording(FALSE) ELSE tray_recording
    /\ UNCHANGED <<is_recording, audio_data, start_time, start_ret, recording_thread, rthread, cb, finalized, ttsVars>>

\* VoiceTranscriberService._on_hotkey_release up to the join inside
\* AudioRecorder.stop_recording: is_recording is cleared and the listener
\* thread waits for the recording thread
OnHotkeyRelease ==
    /\ IF ~is_running \/ ~is_recording
       THEN UNCHANGED <<is_recording, lpc, join_start, stop_called>>
       ELSE /\ is_recording' = FALSE
            /\ stop_called' = now - start_time
            /\ lpc' = "join"
            /\ join_start' = now
    /\ last_press' = "none"
    /\ tray_recording' = IF is_running /\ is_recording THEN SetRecording(FALSE) ELSE tray_recording
    /\ UNCHANGED <<audio_data, start_time, start_ret, recording_thread, rthread, cb, finalized, ttsVars>>

FreeTrig == CHOOSE g \in Trigs : tpc[g] = "none" /\ \A h \in Trigs : tpc[h] = "none" => g <= h

\* VoiceTranscriberService._on_tts_hotkey_press: a _process_tts thread is started
OnTtsHotkeyPress ==
    /\ IF ~is_running
       THEN UNCHANGED ttsVars
       ELSE /\ \E g \in Trigs : tpc[g] = "none"
            /\ tpc' = [tpc EXCEPT ![FreeTrig] = "get_text"]
            /\ t_active' = [t_active EXCEPT ![FreeTrig] = {w \in Workers : wpc[w] \notin {"free", "start"}}]
            /\ t_started' = [t_started EXCEPT ![FreeTrig] = FALSE]
            /\ UNCHANGED <<is_speaking, stop_requested, speech_thread, mixer_busy, ttext, tret, wpc, waudio>>
    /\ UNCHANGED <<recVars, lpc, join_start, stop_called, last_press, tray_recording>>

NoCallback == UNCHANGED <<recVars, lpc, join_start, stop_called, last_press, ttsVars, tray_recording>>

\* ------------------------------------------------------------ HotkeyHandler
\* a speak-chord test that looks at the function key only
IsTtsHotkeyPressed_LastKey(keys) == "f2" \in keys

IsRecordHotkeyPressed(keys) == hotkey \subseteq keys
IsTtsHotkeyPressed(keys) == tts_hotkey \subseteq keys

\* the record test of _on_key_press without its hotkey_states test
PressRecordFires_NoEdge(k) ==
    /\ GetKeyName(k) # NoName
    /\ IsRecordHotkeyPressed(pressed_keys \cup {GetKeyName(k)})

\* _on_key_press: the record chord is complete and was not active
PressRecordFires(k) ==
    /\ GetKeyName(k) # NoName
    /\ IsRecordHotkeyPressed(pressed_keys \cup {GetKeyName(k)})
    /\ ~hotkey_states.record

\* a debounce test that lets a press through at exactly the interval
PressTtsFires_AtInterval(k) ==
    /\ GetKeyName(k) # NoName
    /\ ~PressRecordFires(k)
    /\ IsTtsHotkeyPressed(pressed_keys \cup {GetKeyName(k)})
    /\ ~hotkey_states.tts
    /\ now - last_tts_trigger >= tts_debounce_time

\* _on_key_press: the elif branch is taken, and the debounce test passes
PressTtsFires(k) ==
    /\ GetKeyName(k) # NoName
    /\ ~PressRecordFires(k)
    /\ IsTtsHotkeyPressed(pressed_keys \cup {GetKeyName(k)})
    /\ ~hotkey_states.tts
    /\ now - last_tts_trigger > tts_debounce_time

\* chord c is held according to the key names of the event stream
Held(c, names) == Chord(c) \subseteq names

Count(c, names, fires) ==
    IF ~Held(c, names) THEN 0
    ELSE Min(2, (IF Held(c, held) THEN act[c] ELSE 0) + (IF fires THEN 1 ELSE 0))

Again(c, names, k) ==
    /\ Held(c, names)
    /\ (redown[c] \/ (Held(c, held) /\ act[c] >= 1 /\ GetKeyName(k) \in Chord(c)))

NamesAfterDown(k) == IF GetKeyName(k) = NoName THEN held ELSE held \cup {GetKeyName(k)}
NamesAfterUp(k) == held \ {GetKeyName(k)}

\* a key-down event (also the auto-repeat of a key that is down) and
\* HotkeyHandler._on_key_press with the callback it calls
KeyDown(k) ==
    /\ lpc = "idle"
    /\ down' = down \cup {k}
    /\ held' = NamesAfterDown(k)
    /\ redown' = [c \in Chords |-> Again(c, NamesAfterDown(k), k)]
    /\ called' = IF is_listening /\ callbacks = "count"
                 THEN {x \in {"on_press"} : PressRecordFires(k)}
                         \cup {x \in {"on_tts_press"} : PressTtsFires(k)}
                 ELSE {}
    /\ balance' = IF is_listening /\ callbacks = "count" /\ PressRecordFires(k)
                  THEN Min(2, balance + 1) ELSE balance
    /\ IF is_listening
       THEN /\ pressed_keys' = IF GetKeyName(k) = NoName THEN pressed_keys ELSE pressed_keys \cup {GetKeyName(k)}
            /\ hotkey_states' = [record |-> hotkey_states.record \/ PressRecordFires(k),
                                 tts |-> hotkey_states.tts \/ PressTtsFires(k)]
            /\ last_tts_trigger' = IF PressTtsFires(k) THEN now ELSE last_tts_trigger
            /\ act' = [c \in Chords |-> Count(c, NamesAfterDown(k),
                          IF c = "record" THEN PressRecordFires(k) ELSE PressTtsFires(k))]
            /\ IF PressRecordFires(k) /\ callbacks = "service" THEN OnHotkeyPress
               ELSE IF PressTtsFires(k) /\ callbacks = "service" THEN OnTtsHotkeyPress
               ELSE NoCallback
       ELSE /\ UNCHANGED <<pressed_keys, hotkey_states, last_tts_trigger>>
            /\ act' = [c \in Chords |-> Count(c, NamesAfterDown(k), FALSE)]
            /\ NoCallback
    /\ UNCHANGED <<is_listening, callbacks, is_running, is_processing>>
    /\ UNCHANGED <<started, system_tray, tray_running>>
    /\ UNCHANGED <<clockVars, jobVars, thrVars, txVars>>

KeysAfterUp(k) == pressed_keys \ {GetKeyName(k)}

\* a release test that does not look at the record chord's flag
ReleaseFires_AnyKey(k) ==
    /\ GetKeyName(k) # NoName
    /\ ~IsRecordHotkeyPressed(KeysAfterUp(k))

\* _on_key_release: the record chord was active and no longer is
ReleaseFires(k) ==
    /\ GetKeyName(k) # NoName
    /\ hotkey_states.record
    /\ ~IsRecordHotkeyPressed(KeysAfterUp(k))

\* a key-up event and HotkeyHandler._on_key_release with the callback it calls
KeyUp(k) ==
    /\ lpc = "idle"
    /\ k \in down
    /\ down' = down \ {k}
    /\ held' = NamesAfterUp(k)
    /\ redown' = [c \in Chords |-> Held(c, NamesAfterUp(k)) /\ redown[c]]
    /\ called' = IF is_listening /\ callbacks = "count"
                 THEN {x \in {"on_release"} : ReleaseFires(k)}
                 ELSE {}
    /\ balance' = IF is_listening /\ callbacks = "count" /\ ReleaseFires(k)
                  THEN (IF balance > 0 - 1 THEN balance - 1 ELSE balance) ELSE balance
    /\ act' = [c \in Chords |-> Count(c, NamesAfterUp(k), FALSE)]
    /\ IF is_listening /\ GetKeyName(k) # NoName
       THEN /\ pressed_keys' = KeysAfterUp(k)
            /\ hotkey_states' = [record |-> IsRecordHotkeyPressed(KeysAfterUp(k)),
                                 tts |-> IsTtsHotkeyPressed(KeysAfterUp(k))]
            /\ IF ReleaseFires(k) /\ callbacks = "service" THEN OnHotkeyRelease ELSE NoCallback
       ELSE /\ UNCHANGED <<pressed_keys, hotkey_states>>
            /\ NoCallback
    /\ UNCHANGED <<is_listening, callbacks, last_tts_trigger, is_running, is_processing>>
    /\ UNCHANGED <<started, system_tray, tray_running>>
    /\ UNCHANGED <<clockVars, jobVars, thrVars, txVars>>

\* HotkeyHandler.start called with callbacks that only count
HandlerStart ==
    /\ ~is_listening
    /\ is_listening' = TRUE
    /\ callbacks' = "count"
    /\ UNCHANGED <<pressed_keys, hotkey_states, last_tts_trigger>>
    /\ UNCHANGED <<clockVars, trayVars, jobVars, keyVars, recVars, svcVars, thrVars, txVars, ttsVars>>

\* a stop that also clears the chord flags
HandlerStop_ClearStates ==
    /\ is_listening
    /\ is_listening' = FALSE
    /\ pressed_keys' = {}
    /\ hotkey_states' = [record |-> FALSE, tts |-> FALSE]
    /\ UNCHANGED <<callbacks, last_tts_trigger>>
    /\ UNCHANGED <<clockVars, trayVars, jobVars, keyVars, recVars, svcVars, thrVars, txVars, ttsVars>>

\* HotkeyHandler.stop: the listener is stopped and pressed_keys cleared;
\* hotkey_states stays as it is
HandlerStop ==
    /\ is_listening
    /\ is_listening' = FALSE
    /\ pressed_keys' = {}
    /\ UNCHANGED <<callbacks, hotkey_states, last_tts_trigger>>
    /\ UNCHANGED <<clockVars, trayVars, jobVars, keyVars, recVars, svcVars, thrVars, txVars, ttsVars>>

\* the HotkeyHandler on its own, fed every key-event sequence
NextKeys ==
    \/ HandlerStart
    \/ \E k \in RawKeys : KeyDown(k)
    \/ \E k \in RawKeys : KeyUp(k)
    \/ Tick(KeysStep, KeysHorizon)

SpecKeys == Init /\ [][NextKeys]_vars

InCall(t) == pc[t] \in {"tx_ensure", "tx_load", "tx_use", "tx_run", "tx_ret"}

\* a thread enters Transcriber.transcribe
BeginTranscribe(t) ==
    /\ pc' = [pc EXCEPT ![t] = "tx_ensure"]
    /\ result' = [result EXCEPT ![t] = "none"]
    /\ tx_inst' = [tx_inst EXCEPT ![t] = 0]
    /\ tx_fail' = [tx_fail EXCEPT ![t] = "no"]
    /\ tx_absent' = [tx_absent EXCEPT ![t] = (model = 0)]
    /\ idle_unloaded' = FALSE

\* the caller has taken the value transcribe returned
EndTranscribe(t) ==
    /\ result' = [result EXCEPT ![t] = "none"]
    /\ tx_inst' = [tx_inst EXCEPT ![t] = 0]
    /\ tx_fail' = [tx_fail EXCEPT ![t] = "no"]
    /\ tx_absent' = [tx_absent EXCEPT ![t] = FALSE]

\* _ensure_model_loaded that stores a model at once, with no load under the lock
TxEnsure_Instant(t) ==
    /\ pc[t] = "tx_ensure"
    /\ model_lock = 0
    /\ model = 0 => loads < MaxLoads
    /\ model' = IF model = 0 THEN loads + 1 ELSE model
    /\ loads' = IF model = 0 THEN loads + 1 ELSE loads
    /\ tx_inst' = [tx_inst EXCEPT ![t] = model']
    /\ pc' = [pc EXCEPT ![t] = "tx_use"]
    /\ UNCHANGED <<model_lock, last_used, next_sweep, unloads, tx_fail, tx_absent, idle_unloaded, reply>>
    /\ UNCHANGED <<result, inserted>>
    /\ UNCHANGED <<clockVars, trayVars, jobVars, keyVars, handlerVars, recVars, svcVars, ttsVars>>

\* _ensure_model_loaded entered without taking model_lock
TxEnsure_NoLock(t) ==
    /\ pc[t] = "tx_ensure"
    /\ IF model = 0
       THEN /\ pc' = [pc EXCEPT ![t] = "tx_load"]
            /\ UNCHANGED tx_inst
       ELSE /\ pc' = [pc EXCEPT ![t] = "tx_use"]
            /\ tx_inst' = [tx_inst EXCEPT ![t] = model]
    /\ UNCHANGED <<model_lock, model, last_used, next_sweep, loads, unloads, tx_fail, tx_absent, idle_unloaded, reply>>
    /\ UNCHANGED <<result, inserted>>
    /\ UNCHANGED <<clockVars, trayVars, jobVars, keyVars, handlerVars, recVars, svcVars, ttsVars>>

\* _ensure_model_loaded: model_lock is taken; a present model is returned at
\* once, an absent one is loaded with the lock held
TxEnsure(t) ==
    /\ pc[t] = "tx_ensure"
    /\ model_lock = 0
    /\ IF model = 0
       THEN /\ pc' = [pc EXCEPT ![t] = "tx_load"]
            /\ model_lock' = t
            /\ UNCHANGED tx_inst
       ELSE /\ pc' = [pc EXCEPT ![t] = "tx_use"]
            /\ tx_inst' = [tx_inst EXCEPT ![t] = model]
            /\ UNCHANGED model_lock
    /\ UNCHANGED <<model, last_used, next_sweep, loads, unloads, tx_fail, tx_absent, idle_unloaded, reply>>
    /\ UNCHANGED <<result, inserted>>
    /\ UNCHANGED <<clockVars, trayVars, jobVars, keyVars, handlerVars, recVars, svcVars, ttsVars>>

\* whisper.load_model returns: the new instance is stored, True is returned
TxLoadOk(t) ==
    /\ pc[t] = "tx_load"
    /\ loads < MaxLoads
    /\ model' = loads + 1
    /\ loads' = loads + 1
    /\ model_lock' = 0
    /\ tx_inst' = [tx_inst EXCEPT ![t] = loads + 1]
    /\ pc' = [pc EXCEPT ![t] = "tx_use"]
    /\ UNCHANGED <<last_used, next_sweep, unloads, tx_fail, tx_absent, idle_unloaded, reply>>
    /\ UNCHANGED <<result, inserted>>
    /\ UNCHANGED <<clockVars, trayVars, jobVars, keyVars, handlerVars, recVars, svcVars, ttsVars>>

\* a failed load that leaves a broken handle behind
TxLoadFail_Poison(t) ==
    /\ pc[t] = "tx_load"
    /\ loads < MaxLoads
    /\ model' = loads + 1
    /\ loads' = loads + 1
    /\ model_lock' = 0
    /\ tx_fail' = [tx_fail EXCEPT ![t] = "load"]
    /\ result' = [result EXCEPT ![t] = "none"]
    /\ pc' = [pc EXCEPT ![t] = "tx_ret"]
    /\ UNCHANGED <<last_used, next_sweep, unloads, tx_inst, tx_absent, idle_unloaded, reply>>
    /\ UNCHANGED inserted
    /\ UNCHANGED <<clockVars, trayVars, jobVars, keyVars, handlerVars, recVars, svcVars, ttsVars>>

\* whisper.load_model raises: False is returned and transcribe returns None
TxLoadFail(t) ==
    /\ pc[t] = "tx_load"
    /\ model_lock' = 0
    /\ tx_fail' = [tx_fail EXCEPT ![t] = "load"]
    /\ result' = [result EXCEPT ![t] = "none"]
    /\ pc' = [pc EXCEPT ![t] = "tx_ret"]
    /\ UNCHANGED <<model, last_used, next_sweep, loads, unloads, tx_inst, tx_absent, idle_unloaded, reply>>
    /\ UNCHANGED inserted
    /\ UNCHANGED <<clockVars, trayVars, jobVars, keyVars, handlerVars, recVars, svcVars, ttsVars>>

\* transcribe: self.last_used = time.time()
TxUse(t) ==
    /\ pc[t] = "tx_use"
    /\ last_used' = now
    /\ idle_unloaded' = FALSE
    /\ pc' = [pc EXCEPT ![t] = "tx_run"]
    /\ UNCHANGED <<model, model_lock, next_sweep, loads, unloads, tx_inst, tx_fail, tx_absent, reply>>
    /\ UNCHANGED <<result, inserted>>
    /\ UNCHANGED <<clockVars, trayVars, jobVars, keyVars, handlerVars, recVars, svcVars, ttsVars>>

\* transcribe: self.model.transcribe(audio_file) gives a text, gives an empty
\* text, or raises, as it does on a model that is None by now; the audio
\* file is unlinked once a result came back, and an exception or an empty text
\* returns None
TxRun(t) ==
    /\ pc[t] = "tx_run"
    /\ \E out \in {"text", "blank", "raise"} :
          /\ result' = [result EXCEPT ![t] = IF model # 0 /\ out = "text" THEN "text" ELSE "none"]
          /\ wav' = [wav EXCEPT ![t] = IF model # 0 /\ out # "raise" THEN FALSE ELSE wav[t]]
    /\ tx_fail' = [tx_fail EXCEPT ![t] = IF model = 0 THEN "run" ELSE "no"]
    /\ pc' = [pc EXCEPT ![t] = "tx_ret"]
    /\ UNCHANGED <<model, model_lock, last_used, next_sweep, loads, unloads, tx_inst, tx_absent, idle_unloaded, reply>>
    /\ UNCHANGED inserted
    /\ UNCHANGED <<show_notifications, sink_ok, notified, notify_raised, orphan>>
    /\ UNCHANGED <<clockVars, trayVars, keyVars, handlerVars, recVars, svcVars, ttsVars>>

\* an unloader that wakes and leaves the model alone
Unloader_Keeps ==
    /\ now >= next_sweep
    /\ model_lock = 0
    /\ next_sweep' = now + SweepInterval
    /\ UNCHANGED <<model, last_used, unloads>>
    /\ UNCHANGED <<model_lock, loads, tx_inst, tx_fail, tx_absent, idle_unloaded, reply>>
    /\ UNCHANGED <<clockVars, trayVars, jobVars, keyVars, handlerVars, recVars, svcVars, thrVars, ttsVars>>

\* _model_unloader: after each sleep, under model_lock, a model idle for more
\* than the limit is dropped and last_used reset
Unloader ==
    /\ now >= next_sweep
    /\ model_lock = 0
    /\ next_sweep' = now + SweepInterval
    /\ IF model # 0 /\ last_used > 0 /\ now - last_used > IdleLimit
       THEN /\ model' = 0
            /\ last_used' = 0
            /\ unloads' = unloads + 1
            /\ idle_unloaded' = TRUE
       ELSE UNCHANGED <<model, last_used, unloads, idle_unloaded>>
    /\ UNCHANGED <<model_lock, loads, tx_inst, tx_fail, tx_absent, reply>>
    /\ UNCHANGED <<clockVars, trayVars, jobVars, keyVars, handlerVars, recVars, svcVars, thrVars, ttsVars>>

\* more than the idle limit has passed since the last use and no call is under way
IdleExpired ==
    /\ \A t \in Threads : ~InCall(t)
    /\ idle_unloaded \/ (last_used > 0 /\ now - last_used > IdleLimit)

\* the unloader has run since the idle limit expired
SweptSince == idle_unloaded \/ (last_used > 0 /\ next_sweep - SweepInterval > last_used + IdleLimit)

\* is_model_loaded / get_model_info: a status query
StatusQuery ==
    /\ model_lock = 0
    /\ reply' = [asked |-> TRUE, loaded |-> (model # 0), idle |-> IdleExpired, swept |-> SweptSince]
    /\ UNCHANGED <<model, model_lock, last_used, next_sweep, loads, unloads, tx_inst, tx_fail, tx_absent, idle_unloaded>>
    /\ UNCHANGED <<clockVars, trayVars, jobVars, keyVars, handlerVars, recVars, svcVars, thrVars, ttsVars>>

\* VoiceTranscriberAPI.transcribe_audio: a request thread calls transcribe
ApiCall(t) ==
    /\ pc[t] = "none"
    /\ BeginTranscribe(t)
    /\ UNCHANGED <<model, model_lock, last_used, next_sweep, loads, unloads, reply>>
    /\ UNCHANGED inserted
    /\ UNCHANGED <<clockVars, trayVars, jobVars, keyVars, handlerVars, recVars, svcVars, ttsVars>>

\* transcribe_audio: the request is answered
ApiReturn(t) ==
    /\ pc[t] = "tx_ret"
    /\ pc' = [pc EXCEPT ![t] = "none"]
    /\ EndTranscribe(t)
    /\ UNCHANGED <<model, model_lock, last_used, next_sweep, loads, unloads, idle_unloaded, reply>>
    /\ UNCHANGED inserted
    /\ UNCHANGED <<clockVars, trayVars, jobVars, keyVars, handlerVars, recVars, svcVars, ttsVars>>

\* a Transcriber with concurrent callers and its unloader; the clock moves in
\* steps of one idle period
NextModel ==
    \/ \E t \in Threads : ApiCall(t)
    \/ \E t \in Threads : TxEnsure(t)
    \/ \E t \in Threads : TxLoadOk(t)
    \/ \E t \in Threads : TxLoadFail(t)
    \/ \E t \in Threads : TxUse(t)
    \/ \E t \in Threads : TxRun(t)
    \/ \E t \in Threads : ApiReturn(t)
    \/ Unloader
    \/ Tick(ModelStep, ModelHorizon)

SpecModel == Init /\ [][NextModel]_vars

\* a Transcriber with one caller at a time, its unloader and status queries;
\* the clock moves in steps of half a sweep interval
NextIdle ==
    \/ ApiCall(1)
    \/ TxEnsure(1)
    \/ TxLoadOk(1)
    \/ TxLoadFail(1)
    \/ TxUse(1)
    \/ TxRun(1)
    \/ ApiReturn(1)
    \/ Unloader
    \/ StatusQuery
    \/ Tick(IdleStep, IdleHorizon)

SpecIdle == Init /\ [][NextIdle]_vars

\* _ensure_model_loaded has returned True to the thread
EnsureOk(t) == pc[t] \in {"tx_use", "tx_run"}

\* C7: when the threads call _ensure_model_loaded concurrently while the model
\* is absent, the model is constructed once and every call returns success
\* with the same instance: no two threads are inside whisper.load_model at
\* once, no second instance is constructed unless the unloader dropped the
\* first, every successful return hands out a constructed instance, and two
\* returns differ only across an unload.
C7_SingleConstruction ==
    /\ Cardinality({t \in Threads : pc[t] = "tx_load"}) <= 1
    /\ loads <= unloads + 1
    /\ \A t \in Threads : EnsureOk(t) => tx_inst[t] \in 1..loads
    /\ \A t, u \in Threads :
          EnsureOk(t) /\ EnsureOk(u) /\ tx_inst[t] # tx_inst[u] => unloads > 0

\* every thread called while the model was absent, and each holds the one instance
C7_Witness ==
    /\ loads = 1 /\ unloads = 0
    /\ \A t \in Threads : EnsureOk(t) /\ tx_absent[t] /\ tx_inst[t] = 1

\* C8 as stated: once more than the idle limit has passed since the last use
\* with no acquire since, the next status query reports the model not loaded.
C8_IdleQueryReportsUnloaded == reply.asked /\ reply.idle => ~reply.loaded

\* C8 amended: once more than the idle limit has passed since the last use
\* with no acquire since, and the unloader has run since then (it wakes every
\* 30 s), a status query reports the model not loaded; and a transcribe call
\* that finds the model absent constructs it again.
C8_SweptQueryReportsUnloaded ==
    /\ [](reply.asked /\ reply.idle /\ reply.swept => ~reply.loaded)
    /\ [][\A t \in Threads :
            pc[t] = "tx_ensure" /\ pc'[t] # "tx_ensure" /\ model = 0 => pc'[t] = "tx_load"]_vars

\* a query after the sweep said "not loaded", and a later call is constructing again
C8_Witness ==
    /\ reply.asked /\ reply.idle /\ reply.swept /\ ~reply.loaded
    /\ unloads = 1 /\ loads = 1
    /\ pc[1] = "tx_load"

\* C9: a failed construction leaves the model None, makes transcribe return
\* None, releases the lock, and the next call that finds the model absent
\* constructs again.
C9_FailureNotPoisoning ==
    [][\A t \in Threads :
         /\ (pc[t] = "tx_load" /\ pc'[t] = "tx_ret")
               => (model' = 0 /\ model_lock' = 0 /\ result'[t] = "none")
         /\ (pc[t] = "tx_ensure" /\ pc'[t] # "tx_ensure" /\ model = 0)
               => pc'[t] = "tx_load"]_vars

\* one call's construction failed and another call is constructing again
C9_Witness ==
    \E t, u \in Threads :
        /\ pc[t] = "tx_ret" /\ tx_fail[t] = "load" /\ result[t] = "none"
        /\ pc[u] = "tx_load" /\ model = 0

\* ------------------------------------- VoiceTranscriberService: processing
\* what stop_recording does once its join is over
StopOutcome(saved) ==
    IF now - start_time < min_recording_duration THEN "short"
    ELSE IF audio_data = 0 THEN "empty"
    ELSE IF saved THEN "file" ELSE "error"

\* SystemTray.start as VoiceTranscriberService.start calls it: True when the
\* service holds a tray that is not running and the icon can be made
TrayStarts(tray_ok) == system_tray /\ ~tray_running /\ tray_ok

\* VoiceTranscriberService.start: the tray is started, and dropped if that
\* fails; the hotkey listener is started with the service's callbacks and
\* is_running set, or start returns False as soon as the listener fails
ServiceStartWith(tray_ok, listener_ok) ==
    /\ ~is_running
    /\ tray_running' = (tray_running \/ TrayStarts(tray_ok))
    /\ system_tray' = (system_tray /\ TrayStarts(tray_ok))
    /\ IF ~is_listening /\ listener_ok
       THEN /\ is_listening' = TRUE
            /\ callbacks' = "service"
            /\ is_running' = TRUE
            /\ started' = "true"
       ELSE /\ started' = "false"
            /\ UNCHANGED <<is_listening, callbacks, is_running>>
    /\ UNCHANGED <<pressed_keys, hotkey_states, last_tts_trigger>>
    /\ UNCHANGED <<is_processing, lpc, join_start, stop_called, last_press>>
    /\ UNCHANGED tray_recording
    /\ UNCHANGED <<clockVars, jobVars, keyVars, recVars, thrVars, txVars, ttsVars>>

\* VoiceTranscriberService.start on a desktop where the tray icon and the
\* keyboard listener can be made
ServiceStart == ServiceStartWith(TRUE, TRUE)

\* VoiceTranscriberService.stop, called from the main thread while the
\* listener thread is between callbacks: the listener is stopped and its
\* pressed keys forgotten, the tray the service still holds is stopped, a
\* recording in progress is stopped and the file it returns dropped, and
\* is_running cleared
ServiceStop ==
    /\ is_running
    /\ lpc = "idle"
    /\ is_listening' = FALSE
    /\ pressed_keys' = {}
    /\ is_recording' = FALSE
    /\ \E f \in BOOLEAN :
          /\ finalized' = IF is_recording /\ audio_data > 0 THEN f ELSE finalized
          /\ orphan' = (orphan \/ (is_recording /\ f /\ StopOutcome(TRUE) = "file"))
    /\ tray_running' = (tray_running /\ ~system_tray)
    /\ is_running' = FALSE
    /\ UNCHANGED <<callbacks, hotkey_states, last_tts_trigger>>
    /\ UNCHANGED <<audio_data, start_time, start_ret, recording_thread, rthread, cb>>
    /\ UNCHANGED <<is_processing, lpc, join_start, stop_called, last_press>>
    /\ UNCHANGED <<started, system_tray, tray_recording>>
    /\ UNCHANGED <<show_notifications, sink_ok, notified, notify_raised, wav>>
    /\ UNCHANGED <<clockVars, keyVars, thrVars, txVars, ttsVars>>

FreeThread == CHOOSE t \in Threads : pc[t] = "none" /\ \A u \in Threads : pc[u] = "none" => t <= u

\* what stop_recording returns once its join is over: the duration is taken
\* now, after the join

\* the join in stop_recording ends (the recording thread finished, or the
\* timeout passed); stop_recording returns, and _on_hotkey_release starts a
\* _process_audio thread for a returned file; a stop_recording that raises
\* may have made its temporary file already
JoinReturn ==
    /\ lpc = "join"
    /\ (rthread[recording_thread] # "running" \/ now - join_start >= JoinTimeout)
    /\ \E saved, left \in BOOLEAN :
          /\ IF StopOutcome(saved) = "file"
             THEN /\ \E t \in Threads : pc[t] = "none"
                  /\ pc' = [pc EXCEPT ![FreeThread] = "pa_check"]
                  /\ wav' = [wav EXCEPT ![FreeThread] = TRUE]
             ELSE UNCHANGED <<pc, wav>>
          /\ orphan' = (orphan \/ (StopOutcome(saved) = "error" /\ left))
    /\ finalized' = (StopOutcome(TRUE) = "file")
    /\ lpc' = "idle"
    /\ join_start' = 0
    /\ stop_called' = 0
    /\ UNCHANGED <<is_running, is_processing, last_press>>
    /\ UNCHANGED <<result, inserted>>
    /\ UNCHANGED <<is_recording, audio_data, start_time, start_ret, recording_thread, rthread, cb>>
    /\ UNCHANGED <<show_notifications, sink_ok, notified, notify_raised>>
    /\ UNCHANGED <<clockVars, trayVars, keyVars, handlerVars, txVars, ttsVars>>

\* a Transcribe job is active: past the is_processing test, before the end of
\* the finally block
Active(t) == pc[t] \in {"pa_set", "tx_ensure", "tx_load", "tx_use", "tx_run", "tx_ret", "pa_finally"}
\* ... and has set is_processing
ActiveSet(t) == pc[t] \in {"tx_ensure", "tx_load", "tx_use", "tx_run", "tx_ret", "pa_finally"}

\* _process_audio: the is_processing test; a busy service skips the file
PaCheck(t) ==
    /\ pc[t] = "pa_check"
    /\ pc' = [pc EXCEPT ![t] = IF is_processing THEN "none" ELSE "pa_set"]
    /\ wav' = [wav EXCEPT ![t] = IF is_processing THEN FALSE ELSE wav[t]]
    /\ orphan' = (orphan \/ (is_processing /\ wav[t]))
    /\ UNCHANGED <<result, inserted>>
    /\ UNCHANGED <<show_notifications, sink_ok, notified, notify_raised>>
    /\ UNCHANGED <<clockVars, trayVars, keyVars, handlerVars, recVars, svcVars, txVars, ttsVars>>

\* a _show_notification without its try: the exception of notification.notify
\* reaches the caller
ShowNotification_Raises(t, title) ==
    /\ show_notifications /\ ~sink_ok
    /\ notified' = [notified EXCEPT ![t] = title]
    /\ notify_raised' = [notify_raised EXCEPT ![t] = TRUE]

\* _show_notification under if config.show_notifications: the sink is asked
\* for the notification, and an exception it raises is logged and dropped
ShowNotification(t, title) ==
    IF show_notifications
    THEN /\ notified' = [notified EXCEPT ![t] = title]
         /\ notify_raised' = [notify_raised EXCEPT ![t] = notify_raised[t] \/ ~sink_ok]
    ELSE UNCHANGED <<notified, notify_raised>>

\* a _process_audio whose first notification is not guarded: when the sink
\* raises, the except block is entered and transcribe is never called
PaSet_Unguarded(t) ==
    /\ pc[t] = "pa_set"
    /\ is_processing' = TRUE
    /\ \/ /\ ShowNotification(t, "Processing")
          /\ ~notify_raised'[t]
          /\ BeginTranscribe(t)
       \/ /\ ShowNotification_Raises(t, "Processing")
          /\ pc' = [pc EXCEPT ![t] = "pa_finally"]
          /\ UNCHANGED <<result, tx_inst, tx_fail, tx_absent, idle_unloaded>>
    /\ UNCHANGED <<model, model_lock, last_used, next_sweep, loads, unloads, reply>>
    /\ UNCHANGED <<inserted, show_notifications, sink_ok, wav, orphan>>
    /\ UNCHANGED <<is_running, lpc, join_start, stop_called, last_press>>
    /\ UNCHANGED <<clockVars, trayVars, keyVars, handlerVars, recVars, ttsVars>>

\* _process_audio: is_processing = True, the Processing notification, then
\* transcribe is called
PaSet(t) ==
    /\ pc[t] = "pa_set"
    /\ is_processing' = TRUE
    /\ ShowNotification(t, "Processing")
    /\ BeginTranscribe(t)
    /\ UNCHANGED <<model, model_lock, last_used, next_sweep, loads, unloads, reply>>
    /\ UNCHANGED <<inserted, show_notifications, sink_ok, wav, orphan>>
    /\ UNCHANGED <<is_running, lpc, join_start, stop_called, last_press>>
    /\ UNCHANGED <<clockVars, trayVars, keyVars, handlerVars, recVars, ttsVars>>

\* a _process_audio that hands whatever transcribe returned to insert_text
PaInsert_Always(t) ==
    /\ pc[t] = "tx_ret"
    /\ inserted < MaxInserts
    /\ inserted' = inserted + 1
    /\ \E typed \in BOOLEAN : ShowNotification(t, IF typed THEN "Success" ELSE "Error")
    /\ pc' = [pc EXCEPT ![t] = "pa_finally"]
    /\ EndTranscribe(t)
    /\ UNCHANGED <<model, model_lock, last_used, next_sweep, loads, unloads, idle_unloaded, reply>>
    /\ UNCHANGED <<show_notifications, sink_ok, wav, orphan>>
    /\ UNCHANGED <<clockVars, trayVars, keyVars, handlerVars, recVars, svcVars, ttsVars>>

\* a _process_audio that says nothing when transcribe returned None
PaInsert_Silent(t) ==
    /\ pc[t] = "tx_ret"
    /\ result[t] = "text" => inserted < MaxInserts
    /\ inserted' = IF result[t] = "text" THEN inserted + 1 ELSE inserted
    /\ IF result[t] = "text"
       THEN \E typed \in BOOLEAN : ShowNotification(t, IF typed THEN "Success" ELSE "Error")
       ELSE UNCHANGED <<notified, notify_raised>>
    /\ pc' = [pc EXCEPT ![t] = "pa_finally"]
    /\ EndTranscribe(t)
    /\ UNCHANGED <<model, model_lock, last_used, next_sweep, loads, unloads, idle_unloaded, reply>>
    /\ UNCHANGED <<show_notifications, sink_ok, wav, orphan>>
    /\ UNCHANGED <<clockVars, trayVars, keyVars, handlerVars, recVars, svcVars, ttsVars>>

\* _process_audio: a transcribed text is handed to insert_text, and the
\* Success or the Error notification follows what insert_text returned; with
\* no text the No Speech notification is shown
PaInsert(t) ==
    /\ pc[t] = "tx_ret"
    /\ result[t] = "text" => inserted < MaxInserts
    /\ inserted' = IF result[t] = "text" THEN inserted + 1 ELSE inserted
    /\ IF result[t] = "text"
       THEN \E typed \in BOOLEAN : ShowNotification(t, IF typed THEN "Success" ELSE "Error")
       ELSE ShowNotification(t, "No Speech")
    /\ pc' = [pc EXCEPT ![t] = "pa_finally"]
    /\ EndTranscribe(t)
    /\ UNCHANGED <<model, model_lock, last_used, next_sweep, loads, unloads, idle_unloaded, reply>>
    /\ UNCHANGED <<show_notifications, sink_ok, wav, orphan>>
    /\ UNCHANGED <<clockVars, trayVars, keyVars, handlerVars, recVars, svcVars, ttsVars>>

\* a _process_audio that ends without its finally block
PaFinally_Skip(t) ==
    /\ pc[t] = "pa_finally"
    /\ pc' = [pc EXCEPT ![t] = "none"]
    /\ notified' = [notified EXCEPT ![t] = "none"]
    /\ notify_raised' = [notify_raised EXCEPT ![t] = FALSE]
    /\ wav' = [wav EXCEPT ![t] = FALSE]
    /\ orphan' = (orphan \/ wav[t])
    /\ UNCHANGED <<result, inserted, show_notifications, sink_ok>>
    /\ UNCHANGED <<is_running, is_processing, lpc, join_start, stop_called, last_press>>
    /\ UNCHANGED <<clockVars, trayVars, keyVars, handlerVars, recVars, txVars, ttsVars>>

\* _process_audio: finally, is_processing = False; the thread ends, and a
\* file transcribe did not unlink stays behind
PaFinally(t) ==
    /\ pc[t] = "pa_finally"
    /\ is_processing' = FALSE
    /\ pc' = [pc EXCEPT ![t] = "none"]
    /\ notified' = [notified EXCEPT ![t] = "none"]
    /\ notify_raised' = [notify_raised EXCEPT ![t] = FALSE]
    /\ wav' = [wav EXCEPT ![t] = FALSE]
    /\ orphan' = (orphan \/ wav[t])
    /\ UNCHANGED <<result, inserted, show_notifications, sink_ok>>
    /\ UNCHANGED <<is_running, lpc, join_start, stop_called, last_press>>
    /\ UNCHANGED <<clockVars, trayVars, keyVars, handlerVars, recVars, txVars, ttsVars>>

\* the service driven by the record chord: the listener thread, the recording
\* threads and the _process_audio threads
NextService ==
    \/ ServiceStart
    \/ \E k \in RecordKeys : KeyDown(k)
    \/ \E k \in RecordKeys : KeyUp(k)
    \/ JoinReturn
    \/ \E s \in RecSlots : RecCallback(s)
    \/ \E s \in RecSlots : RecAppend(s)
    \/ \E s \in RecSlots : RecExit(s)
    \/ \E s \in RecSlots : RecError(s)
    \/ \E t \in Threads : PaCheck(t)
    \/ \E t \in Threads : PaSet(t)
    \/ \E t \in Threads : TxEnsure(t)
    \/ \E t \in Threads : TxLoadOk(t)
    \/ \E t \in Threads : TxLoadFail(t)
    \/ \E t \in Threads : TxUse(t)
    \/ \E t \in Threads : TxRun(t)
    \/ \E t \in Threads : PaInsert(t)
    \/ \E t \in Threads : PaFinally(t)
    \/ Tick(ServiceStep, ServiceHorizon)

SpecService == Init /\ [][NextService]_vars

\* C1: at most one Transcribe job is active at any time: no two threads are
\* inside _process_audio between setting is_processing and the finally block
C1_OneActiveJob == Cardinality({t \in Threads : ActiveSet(t)}) <= 1

\* C4: a _process_audio call that makes its is_processing test while another
\* call is past that test and not yet through its finally block returns at
\* once, without calling transcribe or insert_text and without changing
\* is_processing
C4_BusyRejected ==
    [][\A t \in Threads :
          (pc[t] = "pa_check" /\ pc'[t] # "pa_check" /\ \E u \in Threads : u # t /\ Active(u))
             => (pc'[t] = "none" /\ is_processing' = is_processing /\ inserted' = inserted)]_vars

\* C5: when stop_recording is called less than min_recording_duration after
\* start_recording, it returns None and no _process_audio thread is started
C5_ShortStopDiscarded ==
    [][(lpc = "join" /\ lpc' = "idle" /\ stop_called < min_recording_duration) => pc' = pc]_vars

\* the record chord's activation callback is called
RecordPressCalled == ~hotkey_states.record /\ hotkey_states'.record /\ callbacks = "service"

\* C10 as stated: a record-chord activation that arrives while is_processing is
\* true starts a new capture
C10_BusyPressAccepted ==
    [][(RecordPressCalled /\ is_running /\ is_processing /\ ~is_recording) => is_recording']_vars

\* C10: a record-chord activation that arrives while is_processing is true
\* leaves the recorder untouched, and no capture ever starts while
\* is_processing is true
C10_BusyPressIgnored ==
    [][/\ (RecordPressCalled /\ is_running /\ is_processing) => UNCHANGED recVars
       /\ (~is_recording /\ is_recording') => ~is_processing]_vars

\* the record chord was pressed while a job was in flight, and nothing records
C10_Witness ==
    /\ last_press = "while_busy" /\ hotkey_states.record
    /\ ~is_recording /\ is_processing
    /\ \E t \in Threads : ActiveSet(t)


\* ------------------------------------------------------------ TextToSpeech
FreeWorker == CHOOSE w \in Workers : wpc[w] = "free" /\ \A v \in Workers : wpc[v] = "free" => w <= v

\* a _process_tts thread moves on; one that returns forgets its locals
TrigGoes(g, to, ret) ==
    /\ tpc' = [tpc EXCEPT ![g] = to]
    /\ tret' = [tret EXCEPT ![g] = IF to = "none" THEN "none" ELSE ret]
    /\ ttext' = IF to = "none" THEN [ttext EXCEPT ![g] = "none"] ELSE ttext

\* speak_selected_text: get_selected_text returns a text, a text that cleaning
\* empties, or nothing (also when it raises); with nothing selected
\* stop_speech is called
GetSelectedText(g) ==
    /\ tpc[g] = "get_text"
    /\ \E x \in {"text", "blank", "none"} :
          /\ tpc' = [tpc EXCEPT ![g] = IF x = "none" THEN "stop_check" ELSE "check"]
          /\ ttext' = [ttext EXCEPT ![g] = x]
          /\ tret' = [tret EXCEPT ![g] = IF x = "none" THEN "done" ELSE "none"]
    /\ UNCHANGED <<is_speaking, stop_requested, speech_thread, mixer_busy, t_active, t_started, wpc, waudio>>
    /\ UNCHANGED <<clockVars, trayVars, jobVars, keyVars, handlerVars, recVars, svcVars, thrVars, txVars>>

\* speak_selected_text: while is_speaking the speech is stopped instead;
\* otherwise a text that survives cleaning goes to speak_text, which begins
\* with stop_speech
SpeakCheck(g) ==
    /\ tpc[g] = "check"
    /\ IF is_speaking THEN TrigGoes(g, "stop_check", "done")
       ELSE IF ttext[g] = "text" THEN TrigGoes(g, "stop_check", "spawn")
       ELSE TrigGoes(g, "none", "none")
    /\ UNCHANGED <<is_speaking, stop_requested, speech_thread, mixer_busy, t_active, t_started, wpc, waudio>>
    /\ UNCHANGED <<clockVars, trayVars, jobVars, keyVars, handlerVars, recVars, svcVars, thrVars, txVars>>

\* where stop_speech returns to
AfterStop(g) == IF tret[g] = "spawn" THEN "spawn" ELSE "none"

\* stop_speech: if self.is_speaking
StopCheck(g) ==
    /\ tpc[g] = "stop_check"
    /\ IF is_speaking THEN TrigGoes(g, "stop_set", tret[g])
       ELSE TrigGoes(g, AfterStop(g), tret[g])
    /\ UNCHANGED <<is_speaking, stop_requested, speech_thread, mixer_busy, t_active, t_started, wpc, waudio>>
    /\ UNCHANGED <<clockVars, trayVars, jobVars, keyVars, handlerVars, recVars, svcVars, thrVars, txVars>>

\* stop_speech: self.stop_requested = True
StopSet(g) ==
    /\ tpc[g] = "stop_set"
    /\ stop_requested' = TRUE
    /\ TrigGoes(g, "stop_mixer", tret[g])
    /\ UNCHANGED <<is_speaking, speech_thread, mixer_busy, t_active, t_started, wpc, waudio>>
    /\ UNCHANGED <<clockVars, trayVars, jobVars, keyVars, handlerVars, recVars, svcVars, thrVars, txVars>>

\* stop_speech: a busy mixer is stopped; a live speech thread is joined
StopMixer(g) ==
    /\ tpc[g] = "stop_mixer"
    /\ mixer_busy' = FALSE
    /\ IF speech_thread # 0 /\ wpc[speech_thread] # "free"
       THEN TrigGoes(g, "stop_join", tret[g])
       ELSE TrigGoes(g, AfterStop(g), tret[g])
    /\ UNCHANGED <<is_speaking, stop_requested, speech_thread, t_active, t_started, wpc, waudio>>
    /\ UNCHANGED <<clockVars, trayVars, jobVars, keyVars, handlerVars, recVars, svcVars, thrVars, txVars>>

\* stop_speech: join(timeout=1.0) returns, the thread finished or not
StopJoin(g) ==
    /\ tpc[g] = "stop_join"
    /\ TrigGoes(g, AfterStop(g), tret[g])
    /\ UNCHANGED <<is_speaking, stop_requested, speech_thread, mixer_busy, t_active, t_started, wpc, waudio>>
    /\ UNCHANGED <<clockVars, trayVars, jobVars, keyVars, handlerVars, recVars, svcVars, thrVars, txVars>>

\* speak_text: a _speech_worker thread is started and kept in speech_thread
SpeakText(g) ==
    /\ tpc[g] = "spawn"
    /\ \E w \in Workers : wpc[w] = "free"
    /\ speech_thread' = FreeWorker
    /\ wpc' = [wpc EXCEPT ![FreeWorker] = "start"]
    /\ t_started' = [t_started EXCEPT ![g] = TRUE]
    /\ TrigGoes(g, "none", "none")
    /\ UNCHANGED <<is_speaking, stop_requested, mixer_busy, t_active, waudio>>
    /\ UNCHANGED <<clockVars, trayVars, jobVars, keyVars, handlerVars, recVars, svcVars, thrVars, txVars>>

\* _speech_worker: self.is_speaking = True
WorkerStart(w) ==
    /\ wpc[w] = "start"
    /\ is_speaking' = TRUE
    /\ wpc' = [wpc EXCEPT ![w] = "clear"]
    /\ UNCHANGED <<stop_requested, speech_thread, mixer_busy, tpc, ttext, tret, t_active, t_started, waudio>>
    /\ UNCHANGED <<clockVars, trayVars, jobVars, keyVars, handlerVars, recVars, svcVars, thrVars, txVars>>

\* _speech_worker: self.stop_requested = False
WorkerClear(w) ==
    /\ wpc[w] = "clear"
    /\ stop_requested' = FALSE
    /\ wpc' = [wpc EXCEPT ![w] = "generate"]
    /\ UNCHANGED <<is_speaking, speech_thread, mixer_busy, tpc, ttext, tret, t_active, t_started, waudio>>
    /\ UNCHANGED <<clockVars, trayVars, jobVars, keyVars, handlerVars, recVars, svcVars, thrVars, txVars>>

\* _speech_worker: _generate_speech returns the path of the audio file it
\* wrote, or returns None after an error, or wait_for raises TimeoutError
\* after 30 seconds
WorkerGenerate(w) ==
    /\ wpc[w] = "generate"
    /\ \E out \in {"path", "none", "timeout"} :
          /\ waudio' = [waudio EXCEPT ![w] = (out = "path")]
          /\ wpc' = [wpc EXCEPT ![w] = IF out = "timeout" THEN "timeout" ELSE "check"]
    /\ UNCHANGED <<is_speaking, stop_requested, speech_thread, mixer_busy, tpc, ttext, tret, t_active, t_started>>
    /\ UNCHANGED <<clockVars, trayVars, jobVars, keyVars, handlerVars, recVars, svcVars, thrVars, txVars>>

\* _speech_worker: if audio_path and not self.stop_requested
WorkerCheck(w) ==
    /\ wpc[w] = "check"
    /\ wpc' = [wpc EXCEPT ![w] = IF waudio[w] /\ ~stop_requested THEN "load" ELSE "finally"]
    /\ UNCHANGED <<is_speaking, stop_requested, speech_thread, mixer_busy, tpc, ttext, tret, t_active, t_started, waudio>>
    /\ UNCHANGED <<clockVars, trayVars, jobVars, keyVars, handlerVars, recVars, svcVars, thrVars, txVars>>

\* _speech_worker: except asyncio.TimeoutError, the timeout is logged
WorkerTimeout(w) ==
    /\ wpc[w] = "timeout"
    /\ wpc' = [wpc EXCEPT ![w] = "finally"]
    /\ UNCHANGED <<is_speaking, stop_requested, speech_thread, mixer_busy, tpc, ttext, tret, t_active, t_started, waudio>>
    /\ UNCHANGED <<clockVars, trayVars, jobVars, keyVars, handlerVars, recVars, svcVars, thrVars, txVars>>

\* _play_audio: pygame.mixer.music.load and play
WorkerPlay(w) ==
    /\ wpc[w] = "load"
    /\ mixer_busy' = TRUE
    /\ wpc' = [wpc EXCEPT ![w] = "playing"]
    /\ UNCHANGED <<is_speaking, stop_requested, speech_thread, tpc, ttext, tret, t_active, t_started, waudio>>
    /\ UNCHANGED <<clockVars, trayVars, jobVars, keyVars, handlerVars, recVars, svcVars, thrVars, txVars>>

\* the mixer reaches the end of the audio
MixerFinish ==
    /\ mixer_busy
    /\ mixer_busy' = FALSE
    /\ UNCHANGED <<is_speaking, stop_requested, speech_thread, tpc, ttext, tret, t_active, t_started, wpc, waudio>>
    /\ UNCHANGED <<clockVars, trayVars, jobVars, keyVars, handlerVars, recVars, svcVars, thrVars, txVars>>

\* _play_audio: the wait loop ends when the mixer is idle or a stop was
\* requested; the finally block stops the mixer and unlinks the file
WorkerPlayEnd(w) ==
    /\ wpc[w] = "playing"
    /\ (~mixer_busy \/ stop_requested)
    /\ mixer_busy' = FALSE
    /\ waudio' = [waudio EXCEPT ![w] = FALSE]
    /\ wpc' = [wpc EXCEPT ![w] = "finally"]
    /\ UNCHANGED <<is_speaking, stop_requested, speech_thread, tpc, ttext, tret, t_active, t_started>>
    /\ UNCHANGED <<clockVars, trayVars, jobVars, keyVars, handlerVars, recVars, svcVars, thrVars, txVars>>

\* a finally block that leaves is_speaking set
WorkerFinally_Keep(w) ==
    /\ wpc[w] = "finally"
    /\ wpc' = [wpc EXCEPT ![w] = "reset"]
    /\ UNCHANGED <<is_speaking, stop_requested, speech_thread, mixer_busy, tpc, ttext, tret, t_active, t_started, waudio>>
    /\ UNCHANGED <<clockVars, trayVars, jobVars, keyVars, handlerVars, recVars, svcVars, thrVars, txVars>>

\* _speech_worker: finally, self.is_speaking = False
WorkerFinally(w) ==
    /\ wpc[w] = "finally"
    /\ is_speaking' = FALSE
    /\ wpc' = [wpc EXCEPT ![w] = "reset"]
    /\ UNCHANGED <<stop_requested, speech_thread, mixer_busy, tpc, ttext, tret, t_active, t_started, waudio>>
    /\ UNCHANGED <<clockVars, trayVars, jobVars, keyVars, handlerVars, recVars, svcVars, thrVars, txVars>>

\* _speech_worker: finally, self.stop_requested = False, and the thread ends
WorkerExit(w) ==
    /\ wpc[w] = "reset"
    /\ stop_requested' = FALSE
    /\ wpc' = [wpc EXCEPT ![w] = "free"]
    /\ t_active' = [g \in Trigs |-> t_active[g] \ {w}]
    /\ UNCHANGED <<is_speaking, speech_thread, mixer_busy, tpc, ttext, tret, t_started, waudio>>
    /\ UNCHANGED <<clockVars, trayVars, jobVars, keyVars, handlerVars, recVars, svcVars, thrVars, txVars>>

\* the service driven by the speak chord: the listener thread, the
\* _process_tts threads and the _speech_worker threads
NextTTS ==
    \/ ServiceStart
    \/ ServiceStop
    \/ \E k \in SpeakKeys : KeyDown(k)
    \/ \E k \in SpeakKeys : KeyUp(k)
    \/ \E g \in Trigs : GetSelectedText(g)
    \/ \E g \in Trigs : SpeakCheck(g)
    \/ \E g \in Trigs : StopCheck(g)
    \/ \E g \in Trigs : StopSet(g)
    \/ \E g \in Trigs : StopMixer(g)
    \/ \E g \in Trigs : StopJoin(g)
    \/ \E g \in Trigs : SpeakText(g)
    \/ \E w \in Workers : WorkerStart(w)
    \/ \E w \in Workers : WorkerClear(w)
    \/ \E w \in Workers : WorkerGenerate(w)
    \/ \E w \in Workers : WorkerCheck(w)
    \/ \E w \in Workers : WorkerTimeout(w)
    \/ \E w \in Workers : WorkerPlay(w)
    \/ \E w \in Workers : WorkerPlayEnd(w)
    \/ \E w \in Workers : WorkerFinally(w)
    \/ \E w \in Workers : WorkerExit(w)
    \/ MixerFinish
    \/ Tick(KeysStep, TtsHorizon)

SpecTTS == Init /\ [][NextTTS]_vars

\* C2: at most one Speak job is active at any time: no two _speech_worker
\* threads are alive together
C2_OneSpeechWorker == Cardinality({w \in Workers : wpc[w] # "free"}) <= 1

\* C3: a speak-chord trigger that arrives while a Speak job is active (its
\* worker has set is_speaking) starts no new job while that job lasts, and
\* once its _process_tts thread is done the job has its stop request pending
\* or is already in its finally block
C3_TriggerCancelsActiveJob ==
    \A g \in Trigs :
        /\ t_started[g] => t_active[g] = {}
        /\ (tpc[g] = "none" /\ t_active[g] # {})
              => \A w \in t_active[g] : stop_requested \/ wpc[w] \in {"timeout", "finally", "reset"}


\* C11: a _process_audio run whose transcribe returned a text calls
\* insert_text exactly once, a run whose transcribe returned None does not
\* call it, and nothing else calls insert_text
C11_InsertOncePerText ==
    [][/\ \A t \in Threads :
             (pc[t] = "tx_ret" /\ pc'[t] = "pa_finally")
                => inserted' = (IF result[t] = "text" THEN inserted + 1 ELSE inserted)
       /\ inserted' # inserted
             => \E t \in Threads : pc[t] = "tx_ret" /\ result[t] = "text" /\ pc'[t] = "pa_finally"]_vars

\* a job has inserted its text and is in its finally block
C11_Witness == inserted = 1 /\ \E t \in Threads : pc[t] = "pa_finally"


\* C12: at most one _record_audio thread is capturing at a time: while
\* is_recording, no two recording threads are in their loop with an open
\* stream whose callback appends to audio_data
C12_OneCapturingThread ==
    is_recording => Cardinality({s \in RecSlots : rthread[s] = "running"}) <= 1


\* C13: once stop_recording has concatenated the frame list, no frame is
\* appended to that list
C13_NoAppendAfterSnapshot == [][finalized => audio_data' <= audio_data]_vars


\* the recorder driven by the record chord over long holds: the listener
\* thread, the recording threads and the model unloader; the clock moves in
\* steps just over the maximum recording duration
NextCapture ==
    \/ ServiceStart
    \/ \E k \in RecordKeys : KeyDown(k)
    \/ \E k \in RecordKeys : KeyUp(k)
    \/ JoinReturn
    \/ \E s \in RecSlots : RecCallback(s)
    \/ \E s \in RecSlots : RecAppend(s)
    \/ \E s \in RecSlots : RecExit(s)
    \/ \E s \in RecSlots : RecError(s)
    \/ Unloader
    \/ Tick(CaptureStep, CaptureHorizon)

SpecCapture == Init /\ [][NextCapture]_vars

\* C14: when the recording thread leaves its loop because more than
\* max_recording_duration has passed, is_recording is false afterwards
C14_MaxDurationEndsRecording ==
    [][\A s \in RecSlots :
          (rthread[s] = "running" /\ rthread'[s] = "free" /\ is_recording
              /\ now - start_time > max_recording_duration)
             => ~is_recording']_vars


\* C15: when stop_recording returns, whatever it returns, is_recording is
\* false; and whenever is_recording is false a start_recording call (made by
\* _on_hotkey_press past its gate) succeeds: is_recording is set and a new
\* recording thread runs
C15_IdleAfterStop ==
    [][/\ (lpc = "join" /\ lpc' = "idle") => ~is_recording'
       /\ (RecordPressCalled /\ is_running /\ ~is_processing /\ ~is_recording)
             => (is_recording' /\ recording_thread' \in RecSlots
                   /\ rthread[recording_thread'] = "free"
                   /\ rthread'[recording_thread'] = "running")]_vars

\* stop_recording has returned a buffer, the recorder is idle, and the next
\* press has not come yet
C15_Witness ==
    /\ finalized /\ lpc = "idle" /\ ~is_recording
    /\ \E t \in Threads : pc[t] = "pa_check"


\* stop() has returned and the service was not started again
Stopped == ~is_running /\ callbacks = "service"

\* C16: once VoiceTranscriberService.stop has returned, no Speak job is
\* still synthesizing or playing
C16_StopCancelsSpeech ==
    Stopped => /\ \A w \in Workers : wpc[w] \in {"free", "timeout", "finally", "reset"}
               /\ ~mixer_busy


\* C17: when a _speech_worker thread has finished, whatever path it took,
\* the audio file it was given by _generate_speech has been deleted, and
\* once no worker is left the mixer is not playing
C17_ReleasedOnExit ==
    /\ \A w \in Workers : wpc[w] = "free" => ~waudio[w]
    /\ (\A w \in Workers : wpc[w] = "free") => ~mixer_busy

\* the speak-chord service with its worker threads scheduled: a worker that
\* can take a step of its exception handler or its finally block takes it
SpecTTSLive ==
    SpecTTS /\ \A w \in Workers : WF_vars(WorkerTimeout(w) \/ WorkerFinally(w) \/ WorkerExit(w))

\* C18: a _speech_worker whose synthesis timed out goes to its finally block
\* and ends; the finally block clears is_speaking, so is_speaking is false
\* when no worker is left, and a _process_tts thread that then tests
\* is_speaking with a text in hand goes on to speak_text
C18_TimeoutEndsJob ==
    /\ [][/\ \A w \in Workers :
                /\ (wpc[w] = "timeout" /\ wpc'[w] # "timeout") => wpc'[w] = "finally"
                /\ (wpc[w] = "finally" /\ wpc'[w] # "finally") => ~is_speaking'
          /\ (\A w \in Workers : wpc[w] = "free") => ~is_speaking
          /\ \A g \in Trigs :
                (/\ tpc[g] = "check" /\ tpc'[g] # "check" /\ ttext[g] = "text"
                 /\ \A w \in Workers : wpc[w] = "free")
                   => tret'[g] = "spawn"]_vars
    /\ \A w \in Workers : (wpc[w] = "timeout") ~> (wpc[w] = "free")

\* a synthesis has timed out while is_speaking is set, and a later trigger
\* is about to test is_speaking
C18_Witness ==
    \E w \in Workers, g \in Trigs :
        wpc[w] = "timeout" /\ is_speaking /\ tpc[g] = "check" /\ ttext[g] = "text"

\* C19: a key-down or key-up event of a key that _get_key_name maps to no
\* name leaves pressed_keys, both chord states and the debounce stamp
\* unchanged and fires no callback
C19_UnmappedKeyIgnored ==
    [][("unmapped" \in down' \ down \/ "unmapped" \in down \ down')
          => /\ UNCHANGED <<pressed_keys, hotkey_states, last_tts_trigger, act>>
             /\ ~PressRecordFires("unmapped") /\ ~PressTtsFires("unmapped")
             /\ ~ReleaseFires("unmapped")]_vars

\* the handler listens, ctrl is held and the unmapped key went down
C19_Witness ==
    /\ is_listening /\ "unmapped" \in down
    /\ pressed_keys = {"ctrl"} /\ held = {"ctrl"}

\* the model handle: ready when self.model is set, loading while a caller is
\* inside whisper.load_model, absent otherwise
Handle ==
    IF model # 0 THEN "ready"
    ELSE IF \E t \in Threads : pc[t] = "tx_load" THEN "loading"
    ELSE "absent"

\* C20: the model handle moves only absent -> loading -> ready or
\* ready -> absent
C20_HandleTransitions ==
    [][Handle' # Handle
          => <<Handle, Handle'>> \in {<<"absent", "loading">>, <<"loading", "ready">>,
                                      <<"ready", "absent">>}]_vars

\* C20: the model handle moves only absent -> loading -> ready,
\* loading -> absent when the load fails, or ready -> absent; a load is
\* entered by taking model_lock and ends, either way, by the thread that
\* holds model_lock releasing it; the handle becomes absent from ready only
\* by the unloader, which needs model_lock free
C20_HandleTransitionsOrFailedLoad ==
    [][/\ Handle' # Handle
             => <<Handle, Handle'>> \in {<<"absent", "loading">>, <<"loading", "ready">>,
                                         <<"loading", "absent">>, <<"ready", "absent">>}
       /\ Handle = "loading" => (model_lock \in Threads /\ pc[model_lock] = "tx_load")
       /\ (Handle = "absent" /\ Handle' = "loading") => (model_lock = 0 /\ model_lock' \in Threads)
       /\ (Handle = "loading" /\ Handle' = "ready")
             => (pc'[model_lock] = "tx_use" /\ tx_inst'[model_lock] = model' /\ model_lock' = 0)
       /\ (Handle = "loading" /\ Handle' = "absent")
             => (tx_fail'[model_lock] = "load" /\ model_lock' = 0)
       /\ (Handle = "ready" /\ Handle' = "absent")
             => (model_lock = 0 /\ unloads' = unloads + 1 /\ model_lock' = 0)]_vars

\* the model was loaded, used and unloaded, and a caller is loading it again
C20_Witness == unloads >= 1 /\ Handle = "loading"

\* C21: a chord's flag in hotkey_states goes from false to true only in a
\* step after which every key of the chord is in pressed_keys, and from true
\* to false only in a key-release step after which some key of the chord is
\* not in pressed_keys
C21_FlagFollowsKeys ==
    [][\A c \in Chords :
          /\ (~hotkey_states[c] /\ hotkey_states'[c]) => Chord(c) \subseteq pressed_keys'
          /\ (hotkey_states[c] /\ ~hotkey_states'[c])
                => /\ \E k \in down : down' = down \ {k}
                   /\ ~(Chord(c) \subseteq pressed_keys')]_vars

\* the speak chord is active with exactly its keys pressed, and the record
\* chord was active before and is not any more
C21_Witness ==
    /\ hotkey_states.tts /\ pressed_keys = tts_hotkey
    /\ ~hotkey_states.record /\ "f1" \notin down /\ act.tts = 1

\* ------------------------------------------------- AudioRecorder on its own
\* a caller's start_recording call and the value it returns
RecorderStart ==
    /\ lpc = "idle"
    /\ start_recording
    /\ start_ret' = IF is_recording THEN "false" ELSE "true"
    /\ UNCHANGED <<clockVars, trayVars, jobVars, keyVars, handlerVars, svcVars, thrVars, txVars, ttsVars>>

\* a caller's stop_recording call: None at once when nothing records, else
\* is_recording is cleared and the recording thread joined
RecorderStop ==
    /\ lpc = "idle"
    /\ IF ~is_recording
       THEN UNCHANGED <<is_recording, lpc, join_start, stop_called>>
       ELSE /\ is_recording' = FALSE
            /\ stop_called' = now - start_time
            /\ lpc' = "join"
            /\ join_start' = now
    /\ start_ret' = "none"
    /\ UNCHANGED <<audio_data, start_time, recording_thread, rthread, cb, finalized>>
    /\ UNCHANGED <<is_running, is_processing, last_press>>
    /\ UNCHANGED <<clockVars, trayVars, jobVars, keyVars, handlerVars, thrVars, txVars, ttsVars>>

\* the join in stop_recording ends and stop_recording returns to its caller
RecorderStopReturn ==
    /\ lpc = "join"
    /\ (rthread[recording_thread] # "running" \/ now - join_start >= JoinTimeout)
    /\ finalized' = (StopOutcome(TRUE) = "file")
    /\ lpc' = "idle"
    /\ join_start' = 0
    /\ stop_called' = 0
    /\ UNCHANGED <<is_recording, audio_data, start_time, start_ret, recording_thread, rthread, cb>>
    /\ UNCHANGED <<is_running, is_processing, last_press>>
    /\ UNCHANGED <<clockVars, trayVars, jobVars, keyVars, handlerVars, thrVars, txVars, ttsVars>>

\* an AudioRecorder called by one thread in any order, with its recording
\* threads
NextRecorder ==
    \/ RecorderStart
    \/ RecorderStop
    \/ RecorderStopReturn
    \/ \E s \in RecSlots : RecCallback(s)
    \/ \E s \in RecSlots : RecAppend(s)
    \/ \E s \in RecSlots : RecExit(s)
    \/ \E s \in RecSlots : RecError(s)
    \/ Tick(ServiceStep, ServiceHorizon)

SpecRecorder == Init /\ [][NextRecorder]_vars

\* C22: a start_recording call made while is_recording is set returns False
\* and changes nothing: is_recording, audio_data, start_time and
\* recording_thread keep their values and no recording thread is started
C22_StartWhileRecordingRefused ==
    [][/\ (is_recording /\ start_ret' # start_ret /\ start_ret' # "none")
             => /\ start_ret' = "false"
                /\ UNCHANGED <<is_recording, audio_data, start_time, recording_thread, rthread>>
       /\ (is_recording /\ lpc = "idle" /\ lpc' = "idle")
             => /\ start_time' = start_time /\ recording_thread' = recording_thread
                /\ audio_data' >= audio_data
                /\ \A s \in RecSlots : rthread[s] = "free" => rthread'[s] = "free"]_vars

\* start_recording was called during a capture with frames in the buffer,
\* and returned False
C22_Witness ==
    /\ start_ret = "false" /\ is_recording /\ audio_data > 0
    /\ rthread[recording_thread] = "running"

\* --------------------------------------------------- speak chord, continued
\* trigger g found no selected text and is inside the stop_speech call that
\* follows
NoText(g) ==
    /\ tpc[g] \in {"stop_check", "stop_set", "stop_mixer", "stop_join"}
    /\ ttext[g] = "none"

\* C23: a speak-chord trigger that finds no selected text starts no Speak
\* job; if no job exists when stop_speech tests is_speaking it changes
\* nothing, and when it is done every job that was active when it was
\* triggered has its stop request pending or is in its finally block
C23_NoTextOnlyStops ==
    [][\A g \in Trigs :
          NoText(g) /\ tpc'[g] # tpc[g]
             => /\ tpc'[g] \in {"stop_set", "stop_mixer", "stop_join", "none"}
                /\ wpc' = wpc /\ speech_thread' = speech_thread
                /\ (tpc[g] = "stop_check" /\ \A w \in Workers : wpc[w] = "free")
                      => (tpc'[g] = "none"
                            /\ UNCHANGED <<is_speaking, stop_requested, mixer_busy, waudio>>)
                /\ tpc'[g] = "none"
                      => \A w \in t_active[g] :
                            stop_requested \/ wpc[w] \in {"timeout", "finally", "reset"}]_vars

\* --------------------------------------------------- HotkeyHandler, debounce
\* the HotkeyHandler on its own with the clock moving by one debounce
\* interval at a time
NextDebounce ==
    \/ HandlerStart
    \/ \E k \in RawKeys : KeyDown(k)
    \/ \E k \in RawKeys : KeyUp(k)
    \/ Tick(DebounceStep, DebounceHorizon)

SpecDebounce == Init /\ [][NextDebounce]_vars

\* the listening handler gets the first key-down of a named key k, which
\* leaves the speak chord complete, with the chord inactive and the record
\* chord not firing
TtsPressStep(k) ==
    /\ is_listening /\ GetKeyName(k) # NoName
    /\ k \notin down /\ down' = down \cup {k} /\ now' = now
    /\ pressed_keys' = pressed_keys \cup {GetKeyName(k)}
    /\ IsTtsHotkeyPressed(pressed_keys')
    /\ ~hotkey_states.tts /\ ~PressRecordFires(k)

\* C24: a speak-chord press is suppressed exactly when the time since the
\* last speak-chord trigger is less than the debounce interval; at the
\* interval or later it fires
C24_FiresAtInterval ==
    [][\A k \in RawKeys :
          TtsPressStep(k)
             => (hotkey_states'.tts <=> now - last_tts_trigger >= tts_debounce_time)]_vars

\* C24: a speak-chord press is suppressed exactly when the time since the
\* last speak-chord trigger is at most the debounce interval; later than
\* the interval it fires, and the trigger time is then recorded; no
\* key-down, a repeated one included, activates the chord within the interval
C24_FiresAfterInterval ==
    [][/\ \A k \in RawKeys :
             TtsPressStep(k)
                => /\ hotkey_states'.tts <=> now - last_tts_trigger > tts_debounce_time
                   /\ last_tts_trigger' = IF hotkey_states'.tts THEN now ELSE last_tts_trigger
       /\ (~hotkey_states.tts /\ hotkey_states'.tts /\ down \subseteq down')
             => (now - last_tts_trigger > tts_debounce_time /\ last_tts_trigger' = now)]_vars

\* the speak chord is complete and inactive exactly one debounce interval
\* after its last trigger
C24_Witness ==
    /\ is_listening /\ pressed_keys = tts_hotkey /\ ~hotkey_states.tts
    /\ last_tts_trigger > 0 /\ now - last_tts_trigger = tts_debounce_time

\* C25: a key-down that completes the record chord and the speak chord at
\* once, both inactive and the speak chord past its debounce interval,
\* activates both
C25_BothChordsFire ==
    [][\A k \in RawKeys :
          (/\ is_listening /\ GetKeyName(k) # NoName
           /\ k \notin down /\ down' = down \cup {k} /\ now' = now
           /\ pressed_keys' = pressed_keys \cup {GetKeyName(k)}
           /\ IsRecordHotkeyPressed(pressed_keys') /\ IsTtsHotkeyPressed(pressed_keys')
           /\ ~hotkey_states.record /\ ~hotkey_states.tts
           /\ now - last_tts_trigger > tts_debounce_time)
             => (hotkey_states'.record /\ hotkey_states'.tts)]_vars

\* ------------------------------------------------ HotkeyHandler, callbacks
\* the callback a handler would call when chord c is deactivated; the
\* handler takes on_release for the record chord and none for the speak chord
DeactivationOf(c) == IF c = "record" THEN "on_release" ELSE "on_tts_release"

\* C26: for the record chord and for the speak chord, each fall of the
\* chord's flag calls that chord's deactivation callback
C26_EveryChordDeactivates ==
    [][\A c \in Chords :
          (hotkey_states[c] /\ ~hotkey_states'[c]) => DeactivationOf(c) \in called']_vars

\* C26: each fall of the record chord's flag calls on_release, on_release is
\* called by no other key event, and a fall of the speak chord's flag calls
\* no callback of its own
C26_RecordChordDeactivates ==
    [][/\ (hotkey_states.record /\ ~hotkey_states'.record) => "on_release" \in called'
       /\ ("on_release" \in called' /\ (called' # called \/ down' # down))
             => (hotkey_states.record /\ ~hotkey_states'.record)
       /\ (hotkey_states.tts /\ ~hotkey_states'.tts) => called' \subseteq {"on_release"}]_vars

\* the shared modifier was released with both chords active: both flags fell
\* and on_release alone was called
C26_Witness ==
    /\ called = {"on_release"} /\ down = {"f1", "f2"} /\ pressed_keys = {"f1", "f2"}
    /\ ~hotkey_states.record /\ ~hotkey_states.tts
    /\ last_tts_trigger > 0

\* the callback the handler calls when chord c is activated
ActivationOf(c) == IF c = "record" THEN "on_press" ELSE "on_tts_press"

\* C27: whenever a chord's flag goes from false to true, that chord's
\* activation callback is called in the same step
C27_RiseFiresActivation ==
    [][\A c \in Chords :
          (~hotkey_states[c] /\ hotkey_states'[c]) => ActivationOf(c) \in called']_vars

\* ---------------------------------------------------- Transcriber, continued
\* C28: last_used is written only under model_lock: by the unloader, which
\* takes the lock for its test and reset, and by a transcribe call that
\* holds the lock when it stores the time of use
C28_LastUsedUnderLock ==
    [][/\ \A t \in Threads : (pc[t] = "tx_use" /\ pc'[t] = "tx_run") => model_lock = t
       /\ last_used' # last_used
             => \/ \E t \in Threads : pc[t] = "tx_use" /\ pc'[t] = "tx_run"
                \/ (unloads' = unloads + 1 /\ model_lock = 0)]_vars

\* --------------------------------------------------- speak chord, continued
\* worker w is between its own reset of stop_requested and the end of its
\* playback
MidJob(w) == wpc[w] \in {"generate", "check", "load", "playing"}

\* C29: a stop request made for an active job stays pending until the job
\* is in its finally block: a trigger that has set stop_requested finds it
\* still set for every job that was active when it was triggered, no worker
\* clears the flag while another job is between its start-up and the end of
\* its playback, and no job starts playback with the flag set
C29_StopNeverLost ==
    [][/\ \A g \in Trigs :
             tpc[g] \in {"stop_mixer", "stop_join"}
                => \A w \in t_active[g] :
                      stop_requested \/ wpc[w] \in {"timeout", "finally", "reset"}
       /\ (stop_requested /\ ~stop_requested') => \A w \in Workers : ~MidJob(w)
       /\ \A w \in Workers :
             (stop_requested /\ wpc[w] = "load") => wpc'[w] # "playing"]_vars

\* C30: get_selected_text is called only when no Speak job is active: no
\* _process_tts thread goes through it while is_speaking is set
C30_NoClipboardWhileSpeaking ==
    [][\A g \in Trigs :
          (tpc[g] = "get_text" /\ tpc'[g] # "get_text") => ~is_speaking]_vars

\* ------------------------------------------------- HotkeyHandler, restarts
\* the HotkeyHandler on its own, stopped and started again at any time
NextRestart ==
    \/ HandlerStart
    \/ HandlerStop
    \/ \E k \in RawKeys : KeyDown(k)
    \/ \E k \in RawKeys : KeyUp(k)
    \/ Tick(KeysStep, KeysHorizon)

SpecRestart == Init /\ [][NextRestart]_vars

\* C31: the press and release callbacks of the record chord alternate,
\* starting with a press: on_release is never called without an on_press
\* before it that no on_release has matched, and on_press is never called
\* twice with no on_release between
C31_PressReleaseAlternate == balance \in {0, 1}

\* the handler was stopped and started again while a press was unmatched
C31_Witness ==
    /\ balance = 1 /\ is_listening /\ hotkey_states.record
    /\ pressed_keys = {} /\ down = {}


\* main: the command line sets config.show_notifications and
\* config.show_system_tray before the service is constructed and started
ParseArgs(no_tray, no_notifications) ==
    /\ started = "none" /\ ~is_running /\ ~is_listening
    /\ system_tray' = ~no_tray
    /\ show_notifications' = ~no_notifications
    /\ UNCHANGED <<started, tray_running, tray_recording>>
    /\ UNCHANGED <<sink_ok, notified, notify_raised, wav, orphan>>
    /\ UNCHANGED <<clockVars, keyVars, handlerVars, recVars, svcVars, thrVars, txVars, ttsVars>>

\* the desktop's notification service goes away or comes back; while it is
\* away notification.notify raises
SinkChange ==
    /\ sink_ok' = ~sink_ok
    /\ UNCHANGED <<show_notifications, notified, notify_raised, wav, orphan>>
    /\ UNCHANGED <<clockVars, trayVars, keyVars, handlerVars, recVars, svcVars, thrVars, txVars, ttsVars>>

\* the service driven by the record chord, started with or without
\* --no-notifications on a desktop whose notification service comes and goes
NextJob ==
    \/ \E no_notifications \in BOOLEAN : ParseArgs(FALSE, no_notifications)
    \/ SinkChange
    \/ ServiceStart
    \/ \E k \in RecordKeys : KeyDown(k)
    \/ \E k \in RecordKeys : KeyUp(k)
    \/ JoinReturn
    \/ \E s \in RecSlots : RecCallback(s)
    \/ \E s \in RecSlots : RecAppend(s)
    \/ \E s \in RecSlots : RecExit(s)
    \/ \E t \in Threads : PaCheck(t)
    \/ \E t \in Threads : PaSet(t)
    \/ \E t \in Threads : TxEnsure(t)
    \/ \E t \in Threads : TxLoadOk(t)
    \/ \E t \in Threads : TxLoadFail(t)
    \/ \E t \in Threads : TxUse(t)
    \/ \E t \in Threads : TxRun(t)
    \/ \E t \in Threads : PaInsert(t)
    \/ \E t \in Threads : PaFinally(t)
    \/ Tick(ServiceStep, ServiceHorizon)

SpecJob == Init /\ [][NextJob]_vars

\* a _process_audio run takes the value transcribe returned
TakesResult(t) == pc[t] = "tx_ret" /\ pc'[t] = "pa_finally"

\* C32 as stated: every _process_audio run whose transcribe returned None
\* calls insert_text zero times and issues the No Speech notification
C32_NoneNotifies ==
    [][\A t \in Threads :
          (TakesResult(t) /\ result[t] = "none")
             => (inserted' = inserted /\ notified'[t] = "No Speech")]_vars

\* C32: every _process_audio run whose transcribe returned None calls
\* insert_text zero times, and issues the No Speech notification when
\* config.show_notifications is on and no notification when it is off
C32_NoneNotifiesIfShown ==
    [][\A t \in Threads :
          (TakesResult(t) /\ result[t] = "none")
             => /\ inserted' = inserted
                /\ notified'[t] = (IF show_notifications THEN "No Speech" ELSE notified[t])
                /\ ~show_notifications => notified'[t] = "none"]_vars

\* a job whose transcribe returned None is in its finally block with the
\* No Speech notification issued and nothing inserted
C32_Witness ==
    \E t \in Threads :
        /\ pc[t] = "pa_finally" /\ notified[t] = "No Speech"
        /\ inserted = 0 /\ show_notifications


\* C33: an exception raised by notification.notify stays inside
\* _show_notification: a job whose Processing notification raised goes on to
\* call transcribe, a job that had a notification raise still hands its text
\* to insert_text, and it leaves is_processing cleared when it ends
C33_SinkFailureSwallowed ==
    [][\A t \in Threads :
          /\ (pc[t] = "pa_set" /\ pc'[t] # "pa_set" /\ show_notifications /\ ~sink_ok)
                => (notify_raised'[t] /\ pc'[t] = "tx_ensure" /\ is_processing')
          /\ (notify_raised[t] /\ TakesResult(t) /\ result[t] = "text")
                => inserted' = inserted + 1
          /\ (notify_raised[t] /\ pc[t] = "pa_finally" /\ pc'[t] # "pa_finally")
                => (pc'[t] = "none" /\ ~is_processing')]_vars

\* a job whose notification raised has inserted its text and is in its
\* finally block
C33_Witness ==
    \E t \in Threads :
        /\ notify_raised[t] /\ pc[t] = "pa_finally"
        /\ inserted = 1 /\ is_processing


\* C34: between a successful _ensure_model_loaded and the same call's
\* self.model.transcribe the model is never None: a thread past
\* _ensure_model_loaded and not yet back from self.model.transcribe finds the
\* model in place, and no transcribe call fails on a model the unloader took
C34_ModelKeptForJob ==
    \A t \in Threads :
        /\ pc[t] \in {"tx_use", "tx_run"} => model # 0
        /\ tx_fail[t] # "run"


\* C35: whenever a _speech_worker thread is synthesizing or playing audio,
\* is_speaking is true
C35_SpeakingWhileActive ==
    \A w \in Workers : wpc[w] \in {"generate", "check", "load", "playing"} => is_speaking


\* the service with its tray and its recorder, started with or without
\* --no-tray on a desktop where the tray icon or the keyboard listener may
\* fail to start, and stopped and started again; the clock moves in steps
\* just over the maximum recording duration
NextTray ==
    \/ \E no_tray \in BOOLEAN : ParseArgs(no_tray, FALSE)
    \/ \E tray_ok, listener_ok \in BOOLEAN : ServiceStartWith(tray_ok, listener_ok)
    \/ ServiceStop
    \/ \E k \in RecordKeys : KeyDown(k)
    \/ \E k \in RecordKeys : KeyUp(k)
    \/ JoinReturn
    \/ \E s \in RecSlots : RecCallback(s)
    \/ \E s \in RecSlots : RecAppend(s)
    \/ \E s \in RecSlots : RecExit(s)
    \/ \E s \in RecSlots : RecError(s)
    \/ Tick(CaptureStep, CaptureHorizon)

SpecTray == Init /\ [][NextTray]_vars

\* C36: once VoiceTranscriberService.start has returned False, nothing it
\* started is running: the tray is stopped, the listener is stopped and the
\* service is not running
C36_FailedStartLeavesNothing ==
    started = "false" => (~tray_running /\ ~is_listening /\ ~is_running)

\* C37: whenever the tray is running and the listener thread is between
\* callbacks, SystemTray.is_recording equals AudioRecorder.is_recording
C37_TrayAgreesWithRecorder ==
    (system_tray /\ tray_running /\ lpc = "idle") => tray_recording = is_recording


\* C38: every temporary WAV file stop_recording returned is deleted in the
\* end: no _process_audio thread ends with the file it was given still on
\* disk, where nothing could delete it any more, and the file of a recording
\* that stop() finalized is not left behind either
C38_NoFileLeftBehind ==
    [][/\ \A t \in Threads : (pc[t] # "none" /\ pc'[t] = "none") => ~wav[t]
       /\ (is_running /\ ~is_running') => orphan' = orphan]_vars

\* the service driven by the record chord with its _process_audio threads
\* scheduled: a thread that has its transcribe result, or is in its finally
\* block, runs on; the clock moves in steps just over the maximum recording
\* duration
NextFinish ==
    \/ ServiceStart
    \/ \E k \in RecordKeys : KeyDown(k)
    \/ \E k \in RecordKeys : KeyUp(k)
    \/ JoinReturn
    \/ \E s \in RecSlots : RecAppend(s)
    \/ \E s \in RecSlots : RecCallback(s)
    \/ \E s \in RecSlots : RecExit(s)
    \/ \E t \in Threads : PaCheck(t)
    \/ \E t \in Threads : PaSet(t)
    \/ \E t \in Threads : TxEnsure(t)
    \/ \E t \in Threads : TxLoadOk(t)
    \/ \E t \in Threads : TxLoadFail(t)
    \/ \E t \in Threads : TxUse(t)
    \/ \E t \in Threads : TxRun(t)
    \/ \E t \in Threads : PaInsert(t)
    \/ \E t \in Threads : PaFinally(t)
    \/ Tick(CaptureStep, CaptureHorizon)

SpecFinish ==
    /\ Init /\ [][NextFinish]_vars
    /\ \A t \in Threads : WF_vars(PaInsert(t) \/ PaFinally(t))

\* C39: a _process_audio run whose transcribe call has returned, with a text
\* or with None (every exception inside transcribe returns None), goes to
\* its finally block and ends there with is_processing cleared; so after the
\* return is_processing is eventually false, unless the run waits for ever
\* at insert_text because the bound on insertions is reached
C39_ProcessingReset ==
    /\ [][\A t \in Threads :
             /\ (pc[t] = "tx_ret" /\ pc'[t] # "tx_ret")
                   => (pc'[t] = "pa_finally" /\ is_processing' = is_processing)
             /\ (pc[t] = "pa_finally" /\ pc'[t] # "pa_finally")
                   => (pc'[t] = "none" /\ ~is_processing')]_vars
    /\ \A t \in Threads :
          (pc[t] = "tx_ret")
             ~> (~is_processing \/ (pc[t] = "tx_ret" /\ result[t] = "text" /\ inserted = MaxInserts))

\* a job has inserted its text and ended, and is_processing is clear again
C39_Witness ==
    /\ inserted = 1 /\ ~is_processing
    /\ \A t \in Threads : pc[t] = "none"
====
